---- MODULE Spec2Model ----
(***************************************************************************)
(* Hydration reminder backend: the notification scheduling and delivery    *)
(* engine (backend/cron/notifications.js, backend/utils/webPush.js,        *)
(* backend/models/User.js, backend/models/Subscription.js and              *)
(* backend/routes/notifications.js).                                       *)
(*                                                                         *)
(* Four specifications share the module:                                   *)
(*   SpecDue   the due-check User.shouldReceiveNotificationAtHour and the  *)
(*             tick's filter, tabulated over a whole day for one user;     *)
(*   SpecDoc   the Subscription document methods markAsFailed and          *)
(*             markAsSuccessful applied to one document;                   *)
(*   SpecBulk  the dispatcher sendBulkNotifications / sendNotification;    *)
(*   Spec      the running system: users, the subscription collection,     *)
(*             the cron ticker and the ticks in flight.                    *)
(***************************************************************************)
EXTENDS Integers, Sequences, FiniteSets, TLC

\* The value standing for JavaScript's null.
Null == "null"

(***************************************************************************)
(* User preferences (models/User.js)                                       *)
(***************************************************************************)

\* notificationFrequency enum.
Frequencies == {"1min", "30min", "1hr", "2hr"}

\* Hours and minutes of the wall clock; notificationStartHour / EndHour range.
Hours == 0..23
Minutes == 0..59

\* The notification fields of a User document.
UserPrefs ==
    [notificationsEnabled : BOOLEAN,
     notificationStartHour : Hours,
     notificationEndHour : Hours,
     notificationFrequency : Frequencies]

\* Schema defaults of a newly registered user.
DefaultPrefs ==
    [notificationsEnabled |-> TRUE,
     notificationStartHour |-> 5,
     notificationEndHour |-> 0,
     notificationFrequency |-> "1hr"]

\* Mutant: the wrap branch joined with "and" instead of "or".
withinTimeWindowWrapAnd(startHour, endHour, currentHour) ==
    IF endHour = 0
    THEN currentHour >= startHour /\ currentHour < 24
    ELSE IF startHour <= endHour
         THEN currentHour >= startHour /\ currentHour <= endHour
         ELSE currentHour >= startHour /\ currentHour <= endHour

\* Mutant: the midnight-end branch also admits hour 0.
withinTimeWindowMidnightZero(startHour, endHour, currentHour) ==
    IF endHour = 0
    THEN currentHour >= startHour \/ currentHour = 0
    ELSE IF startHour <= endHour
         THEN currentHour >= startHour /\ currentHour <= endHour
         ELSE currentHour >= startHour \/ currentHour <= endHour

\* The time-window test of shouldReceiveNotificationAtHour.
withinTimeWindow(startHour, endHour, currentHour) ==
    IF endHour = 0
    THEN currentHour >= startHour /\ currentHour < 24
    ELSE IF startHour <= endHour
         THEN currentHour >= startHour /\ currentHour <= endHour
         ELSE currentHour >= startHour \/ currentHour <= endHour

\* Mutant: the production '30min' case falls through to the hourly rule.
frequencyRuleHalfHourDropped(frequency, currentHour, currentMinute, isTestMode) ==
    IF isTestMode
    THEN CASE frequency = "1min" -> TRUE
           [] frequency = "30min" -> currentMinute % 30 = 0
           [] frequency = "2hr" -> currentMinute % 120 = 0
           [] OTHER -> currentMinute % 60 = 0
    ELSE CASE frequency = "1min" -> currentMinute = 0
           [] frequency = "2hr" -> currentHour % 2 = 0 /\ currentMinute = 0
           [] OTHER -> currentMinute = 0

\* Mutant: the test-mode '2hr' case follows the hour, as in production.
frequencyRuleTestTwoHourByHour(frequency, currentHour, currentMinute, isTestMode) ==
    IF isTestMode
    THEN CASE frequency = "1min" -> TRUE
           [] frequency = "30min" -> currentMinute % 30 = 0
           [] frequency = "2hr" -> currentHour % 2 = 0 /\ currentMinute = 0
           [] OTHER -> currentMinute % 60 = 0
    ELSE CASE frequency = "1min" -> currentMinute = 0
           [] frequency = "30min" -> currentMinute = 0 \/ currentMinute = 30
           [] frequency = "2hr" -> currentHour % 2 = 0 /\ currentMinute = 0
           [] OTHER -> currentMinute = 0

\* The two frequency switches of shouldReceiveNotificationAtHour.
frequencyRule(frequency, currentHour, currentMinute, isTestMode) ==
    IF isTestMode
    THEN CASE frequency = "1min" -> TRUE
           [] frequency = "30min" -> currentMinute % 30 = 0
           [] frequency = "2hr" -> currentMinute % 120 = 0
           [] OTHER -> currentMinute % 60 = 0
    ELSE CASE frequency = "1min" -> currentMinute = 0
           [] frequency = "30min" -> currentMinute = 0 \/ currentMinute = 30
           [] frequency = "2hr" -> currentHour % 2 = 0 /\ currentMinute = 0
           [] OTHER -> currentMinute = 0

\* Mutant: the notificationsEnabled short-circuit is missing.
shouldReceiveIgnoringEnabled(user, currentHour, currentMinute, isTestMode) ==
    /\ withinTimeWindow(user.notificationStartHour, user.notificationEndHour,
                        currentHour)
    /\ frequencyRule(user.notificationFrequency, currentHour, currentMinute,
                     isTestMode)

\* userSchema.methods.shouldReceiveNotificationAtHour
shouldReceiveNotificationAtHour(user, currentHour, currentMinute, isTestMode) ==
    IF ~user.notificationsEnabled
    THEN FALSE
    ELSE IF ~withinTimeWindow(user.notificationStartHour,
                              user.notificationEndHour, currentHour)
         THEN FALSE
         ELSE frequencyRule(user.notificationFrequency, currentHour,
                            currentMinute, isTestMode)

\* The filter callback of sendHydrationReminders for one loaded subscription;
\* sub.hasOwner is false when populate() found no user (sub.userId is null),
\* otherwise sub.owner holds the populated notification fields.
tickFilter(sub, currentHour, currentMinute, isTestMode) ==
    IF ~sub.hasOwner
    THEN FALSE
    ELSE LET checkMinute == IF isTestMode THEN currentMinute ELSE 0
         IN shouldReceiveNotificationAtHour(sub.owner, currentHour,
                                            checkMinute, isTestMode)

(***************************************************************************)
(* Subscription documents (models/Subscription.js)                         *)
(***************************************************************************)

\* markAsFailed deactivates at this many failed attempts; the queries for
\* active subscriptions exclude records that reached it.
DeactivateThreshold == 5

\* The schema's max validator on failedAttempts.
FailedAttemptsMax == 10

\* The bookkeeping paths of a subscription that the engine reads and writes.
Paths == {"isActive", "failedAttempts", "lastError", "lastNotificationSent"}

\* The paths a query hydrates: all of them for a plain find, none of the
\* bookkeeping paths under select('endpoint keys userId') or
\* select('endpoint keys userAgent').
FullSelection == Paths
ActiveQuerySelection == {}

\* A slot of the collection holding no record.
NoRecord ==
    [exists |-> FALSE, userId |-> 0, isActive |-> FALSE,
     failedAttempts |-> 0, lastError |-> Null, lastNotificationSent |-> Null]

\* Mutant: a schema whose failedAttempts default is its max.
NewRecordDefaultMax(userId) ==
    [exists |-> TRUE, userId |-> userId, isActive |-> TRUE,
     failedAttempts |-> FailedAttemptsMax, lastError |-> Null,
     lastNotificationSent |-> Null]

\* new Subscription({userId, endpoint, keys, userAgent}) with the schema
\* defaults, once saved.
NewRecord(userId) ==
    [exists |-> TRUE, userId |-> userId, isActive |-> TRUE,
     failedAttempts |-> 0, lastError |-> Null, lastNotificationSent |-> Null]

\* The document a query returns for a stored record.  A path outside the
\* projection is undefined on the document (no default is applied to it):
\* it is absent from `defined` and its slot holds a placeholder never read.
\* An _id is never handed out twice, so once the record a document was
\* loaded from is deleted no record carries the document's _id again:
\* `orphaned` says that this has happened.
Hydrate(endpoint, rec, selected) ==
    [orphaned |-> FALSE, endpoint |-> endpoint, userId |-> rec.userId,
     isActive |-> IF "isActive" \in selected THEN rec.isActive ELSE FALSE,
     failedAttempts |->
         IF "failedAttempts" \in selected THEN rec.failedAttempts ELSE 0,
     lastError |-> IF "lastError" \in selected THEN rec.lastError ELSE Null,
     lastNotificationSent |->
         IF "lastNotificationSent" \in selected
         THEN rec.lastNotificationSent ELSE Null,
     defined |-> selected,
     modified |-> {}]

\* A document no handler holds.
NoDocument == Hydrate(0, NoRecord, {})

\* doc[path] = value on a hydrated document: the path is marked modified
\* when the value differs from the one held (an undefined path always does).
SetPath(doc, path, value) ==
    IF path \in doc.defined /\ doc[path] = value
    THEN doc
    ELSE [doc EXCEPT ![path] = value,
                     !.defined = @ \cup {path},
                     !.modified = @ \cup {path}]

\* Mutant: markAsFailed that deactivates at the first failed attempt.
markAsFailedDeactivatesAtOnce(doc, errorMessage) ==
    LET d1 == SetPath(doc, "failedAttempts",
                      IF "failedAttempts" \notin doc.defined
                      THEN 0 ELSE doc.failedAttempts)
        d2 == SetPath(d1, "failedAttempts", d1.failedAttempts + 1)
        d3 == SetPath(d2, "lastError", errorMessage)
    IN SetPath(d3, "isActive", FALSE)

\* subscriptionSchema.methods.markAsFailed, up to its save().
markAsFailed(doc, errorMessage) ==
    LET d1 == SetPath(doc, "failedAttempts",
                      IF "failedAttempts" \notin doc.defined
                      THEN 0 ELSE doc.failedAttempts)
        d2 == SetPath(d1, "failedAttempts", d1.failedAttempts + 1)
        d3 == SetPath(d2, "lastError", errorMessage)
    IN IF d3.failedAttempts >= DeactivateThreshold
       THEN SetPath(d3, "isActive", FALSE)
       ELSE d3

\* Mutant: a success that does not reactivate the subscription.
markAsSuccessfulNoReactivate(doc) ==
    LET d1 == [doc EXCEPT !.lastNotificationSent = "sent",
                          !.defined = @ \cup {"lastNotificationSent"},
                          !.modified = @ \cup {"lastNotificationSent"}]
        d2 == SetPath(d1, "failedAttempts", 0)
    IN SetPath(d2, "lastError", Null)

\* subscriptionSchema.methods.markAsSuccessful, up to its save().  The new
\* Date() always differs from the value held.
markAsSuccessful(doc) ==
    LET d1 == [doc EXCEPT !.lastNotificationSent = "sent",
                          !.defined = @ \cup {"lastNotificationSent"},
                          !.modified = @ \cup {"lastNotificationSent"}]
        d2 == SetPath(d1, "failedAttempts", 0)
        d3 == SetPath(d2, "lastError", Null)
    IN SetPath(d3, "isActive", TRUE)

\* Mutant: a save that upserts, writing the record anew when none carries
\* the document's _id.
SaveUpsert(doc, rec) ==
    [error |-> "",
     rec |-> [exists |-> TRUE,
              userId |-> doc.userId,
              isActive |-> IF "isActive" \in doc.modified
                           THEN doc.isActive ELSE TRUE,
              failedAttempts |-> IF "failedAttempts" \in doc.modified
                                 THEN doc.failedAttempts ELSE 0,
              lastError |-> IF "lastError" \in doc.modified
                            THEN doc.lastError ELSE Null,
              lastNotificationSent |->
                  IF "lastNotificationSent" \in doc.modified
                  THEN doc.lastNotificationSent ELSE Null],
     doc |-> [doc EXCEPT !.modified = {}]]

\* doc.save(): validation of the modified paths, then an update of the
\* record with the document's _id that sets the modified paths only; `rec`
\* is the collection's slot for the document's endpoint.
\* Returns the error ("" for none), the record and the document afterwards.
Save(doc, rec) ==
    IF "failedAttempts" \in doc.modified
       /\ doc.failedAttempts > FailedAttemptsMax
    THEN [error |-> "ValidationError", rec |-> rec, doc |-> doc]
    ELSE IF ~rec.exists \/ doc.orphaned
         THEN [error |-> "DocumentNotFoundError", rec |-> rec, doc |-> doc]
         ELSE [error |-> "",
               rec |-> [rec EXCEPT
                   !.isActive =
                       IF "isActive" \in doc.modified
                       THEN doc.isActive ELSE @,
                   !.failedAttempts =
                       IF "failedAttempts" \in doc.modified
                       THEN doc.failedAttempts ELSE @,
                   !.lastError =
                       IF "lastError" \in doc.modified
                       THEN doc.lastError ELSE @,
                   !.lastNotificationSent =
                       IF "lastNotificationSent" \in doc.modified
                       THEN doc.lastNotificationSent ELSE @],
               doc |-> [doc EXCEPT !.modified = {}]]

(***************************************************************************)
(* Push delivery (utils/webPush.js)                                        *)
(***************************************************************************)

\* What the push service answers to one webpush.sendNotification call: "ok"
\* resolves, the others reject with that error message.
TransportErrors == {"Gone", "Service Unavailable"}
TransportAnswers == {"ok"} \cup TransportErrors

\* sendNotification: the settled promise of one send.  `subscription` is the
\* web-push format object, or not an object at all (isObject false), in which
\* case the catch block itself throws on subscription.endpoint and the
\* promise rejects.  `vapid` says whether both VAPID keys are configured.
sendNotification(subscription, payload, answer, vapid) ==
    IF ~vapid
    THEN IF subscription.isObject
         THEN [status |-> "fulfilled", success |-> FALSE,
               error |-> "VAPID keys not configured"]
         ELSE [status |-> "rejected", success |-> FALSE, error |-> "TypeError"]
    ELSE IF ~subscription.isObject
         THEN [status |-> "rejected", success |-> FALSE, error |-> "TypeError"]
         ELSE IF answer = "ok"
              THEN [status |-> "fulfilled", success |-> TRUE, error |-> Null]
              ELSE [status |-> "fulfilled", success |-> FALSE, error |-> answer]

\* Mutant: Promise.all in place of Promise.allSettled, so that one rejected
\* send rejects the whole call.
sendBulkNotificationsPromiseAll(subscriptions, payload, answers, vapid) ==
    LET promises == [i \in 1..Len(subscriptions) |->
                        sendNotification(subscriptions[i], payload, answers[i],
                                         vapid)]
    IN IF \E i \in 1..Len(promises) : promises[i].status = "rejected"
       THEN [threw |-> TRUE, results |-> <<>>]
       ELSE [threw |-> FALSE,
             results |-> [i \in 1..Len(promises) |->
                 [subscription |-> subscriptions[i],
                  result |-> [success |-> promises[i].success,
                              error |-> promises[i].error]]]]

\* sendBulkNotifications: every send is started, all are awaited with
\* Promise.allSettled, and result i is paired with subscription i.
sendBulkNotifications(subscriptions, payload, answers, vapid) ==
    LET promises == [i \in 1..Len(subscriptions) |->
                        sendNotification(subscriptions[i], payload, answers[i],
                                         vapid)]
    IN [threw |-> FALSE,
        results |-> [i \in 1..Len(promises) |->
            [subscription |-> subscriptions[i],
             result |-> IF promises[i].status = "fulfilled"
                        THEN [success |-> promises[i].success,
                              error |-> promises[i].error]
                        ELSE [success |-> FALSE,
                              error |-> promises[i].error]]]]

(***************************************************************************)
(* State                                                                   *)
(***************************************************************************)
VARIABLES
    dueUser,      \* SpecDue: the user document under evaluation
    dueMode,      \* SpecDue: "idle", or the tick mode evaluated
    dueAt,        \* SpecDue: the <<hour, minute>> at which the due-check is true
    selectedAt,   \* SpecDue: the <<hour, minute>> at which the tick filter is true
    bulkPc,       \* SpecBulk: "idle", "called", "returned" or "threw"
    bulkSubs,     \* SpecBulk: the subscriptions argument
    bulkAnswers,  \* SpecBulk: the push service's answer to each send
    bulkVapid,    \* SpecBulk: whether the VAPID keys are configured
    bulkResults,  \* SpecBulk: the array sendBulkNotifications returned
    docStored,    \* SpecDoc: the record in the collection
    doc,          \* SpecDoc: the document a query returned for it
    docHistory,   \* SpecDoc: the methods called on the document, in order
    users,        \* Spec: the notification fields of each User document
    subscriptions,\* Spec: the Subscription collection, by (unique) endpoint
    age,          \* per endpoint, the whole days since the record's updatedAt
    revived,      \* (history) the endpoints whose deactivated record a
                  \* subscribe request of its owner has reactivated
    deletedCount, \* what the last cleanupInactiveSubscriptions() returned,
                  \* -1 before the first
    manual,       \* the POST /api/notifications/test handler in flight
    cronJob,      \* Spec: the module's cronJob handle, Null or "scheduled"
    ticks,        \* Spec: the runs of sendHydrationReminders in flight
    failRun,      \* Spec (history): per endpoint, the failed sends recorded
                  \* in a row since the record was written by subscribe or
                  \* by markAsSuccessful
    testCronJob,  \* the module's testCronJob handle
    minuteJobs,   \* the every-minute jobs registered with node-cron and
                  \* not destroyed
    cleanupJobs,  \* the daily cleanup jobs registered with node-cron and
                  \* not destroyed
    nodeEnv,      \* process.env.NODE_ENV
    vapidKeys,    \* whether VAPID_PUBLIC_KEY and VAPID_PRIVATE_KEY are set
    lastCalls,    \* SpecSched (history): the last two start or stop
                  \* functions called, <<previous, latest>>
    unhandled,    \* whether a run of sendHydrationReminders has rejected
    payIntent,    \* SpecPayload: which builder is asked for a payload
    payTime,      \* SpecPayload: the <<hour, minute>> of the build
    payload,      \* SpecPayload: the payload built, or NoPayload
    store,        \* SpecRegister: the Subscription collection, a set of
                  \* records with their _id
    requests,     \* SpecRegister: the route handlers in progress, per user
    nextId        \* SpecRegister: the next _id the driver hands out

dueVars == <<dueUser, dueMode, dueAt, selectedAt>>

bulkVars == <<bulkPc, bulkSubs, bulkAnswers, bulkVapid, bulkResults>>

docVars == <<docStored, doc, docHistory>>

schedVars ==
    <<testCronJob, minuteJobs, cleanupJobs, nodeEnv, vapidKeys, lastCalls,
      unhandled>>

sysVars ==
    <<users, subscriptions, age, revived, deletedCount, manual, cronJob, ticks, failRun,
      schedVars>>

payVars == <<payIntent, payTime, payload>>

regVars == <<store, requests, nextId>>

\* The variables of the harnesses, which the running system leaves alone.
harnessVars == <<dueVars, bulkVars, docVars, payVars, regVars>>

vars == <<dueVars, bulkVars, docVars, sysVars, payVars, regVars>>

(***************************************************************************)
(* Bounds of the running system                                            *)
(***************************************************************************)
NumUsers == 2
UserIds == 1..NumUsers

NumEndpoints == 2
Endpoints == 1..NumEndpoints

\* Runs of sendHydrationReminders that can be in flight together.
MaxInFlight == 1
Slots == 1..MaxInFlight

\* The history counter failRun stops counting here.
MaxFailRun == 5

\* The daily cleanup jobs the start functions may register in all.
MaxCleanupJobs == 2

\* The calls of start() that a server process makes (one, at boot).
MaxServerStarts == 1

\* The run of sendHydrationReminders a free slot holds.
IdleTick ==
    [pc |-> "idle", isTestMode |-> FALSE, currentHour |-> 0,
     currentMinute |-> 0, enabledSubscriptions |-> <<>>, results |-> <<>>,
     i |-> 0, successCount |-> 0, failedCount |-> 0, source |-> "none"]

\* The values of NODE_ENV the code tells apart, and the one of a deployed
\* server.
NodeEnvs == {"development", "production"}
ServerEnv == "production"

\* Whether VAPID_PUBLIC_KEY and VAPID_PRIVATE_KEY are set in the environment
\* of a deployed server.
VapidKeysSet == TRUE

\* The POST /api/notifications/test handler when no request is in progress.
IdleManual == [pc |-> "idle", subscriptions |-> <<>>, i |-> 0]

\* The bookkeeping of a collection nobody has written to yet.
StoreIdle ==
    /\ age = [e \in Endpoints |-> 0]
    /\ revived = {}
    /\ deletedCount = -1
    /\ manual = IdleManual

\* The scheduler module and its environment once the module is loaded: no
\* job handle, nothing registered with node-cron.
SchedIdle ==
    /\ cronJob = Null
    /\ testCronJob = Null
    /\ minuteJobs = 0
    /\ cleanupJobs = 0
    /\ lastCalls = <<"none", "none">>
    /\ unhandled = FALSE

\* The state of the system after the modules are loaded and the users have
\* registered: no subscription, no cron job.
SysInit ==
    /\ users = [u \in UserIds |-> DefaultPrefs]
    /\ subscriptions = [e \in Endpoints |-> NoRecord]
    /\ StoreIdle
    /\ SchedIdle
    /\ nodeEnv = ServerEnv
    /\ vapidKeys = VapidKeysSet
    /\ ticks = [k \in Slots |-> IdleTick]
    /\ failRun = [e \in Endpoints |-> 0]

\* The payload variable before a builder has run.
NoPayload == [tag |-> "none"]

\* The state of the payload harness when it is not in use.
PayIdle ==
    /\ payIntent = "idle"
    /\ payTime = <<0, 0>>
    /\ payload = NoPayload

\* The state of the registration harness when it is not in use.
RegIdle ==
    /\ store = {}
    /\ requests = <<>>
    /\ nextId = 1

\* The state of the dispatcher harness when it is not in use.
BulkIdle ==
    /\ bulkPc = "idle"
    /\ bulkSubs = <<>>
    /\ bulkAnswers = <<>>
    /\ bulkVapid = TRUE
    /\ bulkResults = <<>>

\* The state of the document harness when it is not in use.
DocIdle ==
    /\ docStored = NoRecord
    /\ doc = NoDocument
    /\ docHistory = <<>>

(***************************************************************************)
(* SpecDue: one user's due-check over every minute of a day                *)
(***************************************************************************)
DueIdle ==
    /\ dueUser = DefaultPrefs
    /\ dueMode = "idle"
    /\ dueAt = {}
    /\ selectedAt = {}

DueInit ==
    /\ dueUser \in UserPrefs
    /\ dueMode = "idle"
    /\ dueAt = {}
    /\ selectedAt = {}
    /\ BulkIdle
    /\ DocIdle
    /\ PayIdle
    /\ RegIdle
    /\ SysInit

\* Evaluate the due-check, directly and through the tick's filter, at every
\* hour and minute of the day in the given tick mode.
EvaluateDay(isTestMode) ==
    /\ dueMode = "idle"
    /\ dueMode' = IF isTestMode THEN "test" ELSE "production"
    /\ dueAt' = {t \in Hours \X Minutes :
           shouldReceiveNotificationAtHour(dueUser, t[1], t[2], isTestMode)}
    /\ selectedAt' = {t \in Hours \X Minutes :
           tickFilter([hasOwner |-> TRUE, owner |-> dueUser], t[1], t[2],
                      isTestMode)}
    /\ UNCHANGED <<dueUser, bulkVars, docVars, sysVars, payVars, regVars>>

EvaluateProduction == EvaluateDay(FALSE)

EvaluateTest == EvaluateDay(TRUE)

DueNext == EvaluateProduction \/ EvaluateTest

SpecDue == DueInit /\ [][DueNext]_vars

(***************************************************************************)
(* Claims about the due-check (SpecDue)                                    *)
(***************************************************************************)

\* C2: for an enabled everyHour user whose window wraps (start > end, end # 0)
\* the production due-check at minute 0 is true exactly at the hours
\* h >= start or h <= end; for the window 22..2 these are 22, 23, 0, 1, 2.
C2_WindowWrap ==
    ( /\ dueMode = "production"
      /\ dueUser.notificationsEnabled
      /\ dueUser.notificationFrequency = "1hr"
      /\ dueUser.notificationStartHour > dueUser.notificationEndHour
      /\ dueUser.notificationEndHour # 0 )
    => /\ \A h \in Hours :
            <<h, 0>> \in dueAt <=>
                (h >= dueUser.notificationStartHour
                 \/ h <= dueUser.notificationEndHour)
       /\ ( dueUser.notificationStartHour = 22
            /\ dueUser.notificationEndHour = 2 )
          => {h \in Hours : <<h, 0>> \in dueAt} = {22, 23, 0, 1, 2}

C2_Witness ==
    /\ dueMode = "production"
    /\ dueUser = [notificationsEnabled |-> TRUE, notificationStartHour |-> 22,
                  notificationEndHour |-> 2, notificationFrequency |-> "1hr"]
    /\ <<23, 0>> \in dueAt
    /\ <<1, 0>> \in dueAt
    /\ <<3, 0>> \notin dueAt

InWindow(user, h) ==
    \/ user.notificationEndHour = 0 /\ h >= user.notificationStartHour
    \/ /\ user.notificationEndHour # 0
       /\ user.notificationStartHour <= user.notificationEndHour
       /\ user.notificationStartHour <= h
       /\ h <= user.notificationEndHour
    \/ /\ user.notificationEndHour # 0
       /\ user.notificationStartHour > user.notificationEndHour
       /\ (h >= user.notificationStartHour \/ h <= user.notificationEndHour)

\* C4: in production mode an enabled every30Min user is due exactly at
\* minutes 0 and 30 of the hours inside the window, and at no minute of an
\* hour outside it.
C4_HalfHourExact ==
    ( /\ dueMode = "production"
      /\ dueUser.notificationsEnabled
      /\ dueUser.notificationFrequency = "30min" )
    => \A h \in Hours, m \in Minutes :
           <<h, m>> \in dueAt <=> (InWindow(dueUser, h) /\ m \in {0, 30})

C4_Witness ==
    /\ dueMode = "production"
    /\ dueUser = [notificationsEnabled |-> TRUE, notificationStartHour |-> 8,
                  notificationEndHour |-> 22, notificationFrequency |-> "30min"]
    /\ <<9, 0>> \in dueAt
    /\ <<9, 30>> \in dueAt
    /\ <<9, 15>> \notin dueAt
    /\ <<9, 45>> \notin dueAt
    /\ <<23, 0>> \notin dueAt

\* C5: a user with notificationsEnabled = false is due at no hour and minute,
\* whatever the frequency, the window and the tick mode, so the tick's
\* filter never selects a subscription of that user.
C5_DisabledNeverDue ==
    (dueMode # "idle" /\ ~dueUser.notificationsEnabled)
    => (dueAt = {} /\ selectedAt = {})

C5_Witness ==
    /\ dueMode = "test"
    /\ dueUser = [notificationsEnabled |-> FALSE, notificationStartHour |-> 0,
                  notificationEndHour |-> 23, notificationFrequency |-> "1min"]
    /\ dueAt = {}
    /\ selectedAt = {}

MaxBulk == 3

\* The objects the dispatcher can be handed: the web-push format of a
\* subscription, or a value that is no object.
PushSubscriptions ==
    [isObject : {TRUE}, endpoint : Endpoints]
        \cup {[isObject |-> FALSE, endpoint |-> 0]}

SeqsUpTo(S, n) == UNION {[1..k -> S] : k \in 0..n}

BulkInit ==
    /\ DueIdle
    /\ DocIdle
    /\ PayIdle
    /\ RegIdle
    /\ SysInit
    /\ bulkPc = "called"
    /\ bulkSubs \in SeqsUpTo(PushSubscriptions, MaxBulk)
    /\ bulkAnswers \in [1..Len(bulkSubs) -> TransportAnswers]
    /\ bulkVapid \in BOOLEAN
    /\ bulkResults = <<>>

\* The call settles: it returns its results array or throws.
BulkSettle ==
    /\ bulkPc = "called"
    /\ LET out == sendBulkNotifications(bulkSubs, "payload", bulkAnswers,
                                        bulkVapid)
       IN /\ bulkPc' = IF out.threw THEN "threw" ELSE "returned"
          /\ bulkResults' = out.results
    /\ UNCHANGED <<bulkSubs, bulkAnswers, bulkVapid, dueVars, docVars, sysVars,
                   payVars, regVars>>

BulkNext == BulkSettle

SpecBulk == BulkInit /\ [][BulkNext]_vars

\* The outcome send i must have, judged from input i alone.
ExpectedSuccess(i) ==
    bulkVapid /\ bulkSubs[i].isObject /\ bulkAnswers[i] = "ok"

\* C10: dispatch over n subscriptions never throws and returns n outcomes,
\* outcome i paired with subscription i and a success exactly when send i
\* itself succeeded, whatever the other sends did.
C10_FanOutIsolation ==
    /\ bulkPc # "threw"
    /\ bulkPc = "returned" =>
          /\ Len(bulkResults) = Len(bulkSubs)
          /\ \A i \in 1..Len(bulkSubs) :
                /\ bulkResults[i].subscription = bulkSubs[i]
                /\ bulkResults[i].result.success = ExpectedSuccess(i)
                /\ ~ExpectedSuccess(i) => bulkResults[i].result.error # Null

\* Three subscriptions, the second send fails: two successes, one failure.
C10_Witness ==
    /\ bulkPc = "returned"
    /\ Len(bulkSubs) = 3
    /\ bulkVapid
    /\ \A i \in 1..3 : bulkSubs[i].isObject
    /\ bulkAnswers = <<"ok", "Gone", "ok">>
    /\ bulkResults[1].result.success
    /\ ~bulkResults[2].result.success
    /\ bulkResults[3].result.success

(***************************************************************************)
(* SpecDoc: markAsFailed and markAsSuccessful on one document              *)
(***************************************************************************)

\* Number of method calls made on the document.
MaxCalls == 3

\* Records the schema admits.
StoredRecords ==
    [exists : {TRUE}, userId : {1}, isActive : BOOLEAN,
     failedAttempts : 0..FailedAttemptsMax,
     lastError : {Null} \cup TransportErrors,
     lastNotificationSent : {Null, "sent"}]

DocInit ==
    /\ DueIdle
    /\ BulkIdle
    /\ PayIdle
    /\ RegIdle
    /\ SysInit
    /\ docStored \in StoredRecords
    /\ \E selected \in {FullSelection, ActiveQuerySelection} :
           doc = Hydrate(1, docStored, selected)
    /\ docHistory = <<>>

\* await subscription.markAsFailed(errorMessage)
DocMarkAsFailed(errorMessage) ==
    /\ Len(docHistory) < MaxCalls
    /\ LET saved == Save(markAsFailed(doc, errorMessage), docStored)
       IN /\ doc' = saved.doc
          /\ docStored' = saved.rec
    /\ docHistory' = Append(docHistory, "markAsFailed")
    /\ UNCHANGED <<dueVars, bulkVars, sysVars, payVars, regVars>>

\* await subscription.markAsSuccessful()
DocMarkAsSuccessful ==
    /\ Len(docHistory) < MaxCalls
    /\ LET saved == Save(markAsSuccessful(doc), docStored)
       IN /\ doc' = saved.doc
          /\ docStored' = saved.rec
    /\ docHistory' = Append(docHistory, "markAsSuccessful")
    /\ UNCHANGED <<dueVars, bulkVars, sysVars, payVars, regVars>>

DocNext ==
    \/ \E errorMessage \in TransportErrors : DocMarkAsFailed(errorMessage)
    \/ DocMarkAsSuccessful

SpecDoc == DocInit /\ [][DocNext]_vars

\* C9: right after markAsSuccessful, whatever the record and the document
\* held before, both have failedAttempts 0, lastError null and isActive
\* true; a second markAsSuccessful in a row finds and leaves them so.
C9_SuccessBookkeeping ==
    ( docHistory # <<>>
      /\ docHistory[Len(docHistory)] = "markAsSuccessful" )
    => /\ {"failedAttempts", "lastError", "isActive"} \subseteq doc.defined
       /\ doc.failedAttempts = 0
       /\ doc.lastError = Null
       /\ doc.isActive = TRUE
       /\ docStored.failedAttempts = 0
       /\ docStored.lastError = Null
       /\ docStored.isActive = TRUE

\* An inactive record with failures, marked successful twice in a row from a
\* document that did not select the bookkeeping paths.
C9_Witness ==
    /\ Len(docHistory) = 3
    /\ docHistory = <<"markAsFailed", "markAsSuccessful", "markAsSuccessful">>
    /\ docStored.isActive
    /\ docStored.failedAttempts = 0
    /\ docStored.lastError = Null

(***************************************************************************)
(* Spec: the running system                                                *)
(***************************************************************************)

\* Wall-clock times (IST hour, minute) at which the modelled ticks run.
TickTimes == {<<9, 0>>, <<9, 1>>, <<18, 0>>}

\* Notification settings a user sends to PUT /api/auth/profile.
ProfileInputs ==
    {[notificationStartHour |-> 9, notificationEndHour |-> 17,
      notificationFrequency |-> "1hr"]}

\* The push service's answers to the sends of a tick.
TickAnswers == {"ok", "Gone"}

\* createHydrationNotification: the defaults overridden by the options.
createHydrationNotification(options) ==
    LET defaultNotification ==
            [title |-> "Drink Water!",
             body |-> "Stay Hydrated. Time to drink some water!",
             tag |-> "hydration-reminder",
             requireInteraction |-> FALSE,
             silent |-> FALSE,
             data |-> [url |-> "/", action |-> "hydration-reminder"],
             actions |-> <<"log-water", "snooze">>]
    IN [f \in DOMAIN defaultNotification \cup DOMAIN options |->
           IF f \in DOMAIN options THEN options[f] ELSE defaultNotification[f]]

\* createTestNotification
createTestNotification ==
    createHydrationNotification(
        [title |-> "Test Water Reminder",
         body |-> "Click me to test the water alert sound and auto-logging!",
         tag |-> "test-hydration-reminder",
         requireInteraction |-> TRUE,
         silent |-> FALSE,
         data |-> [url |-> "/", action |-> "hydration-reminder",
                   isTest |-> TRUE]])

\* The payload a run of sendHydrationReminders builds.
tickNotification(isTestMode, currentHour, currentMinute) ==
    createHydrationNotification(
        [title |-> IF isTestMode THEN "Test Water Reminder!"
                   ELSE "Drink Water!",
         body |-> IF isTestMode THEN "Test notification - Stay Hydrated!"
                  ELSE "Stay Hydrated. Time to drink some water!",
         tag |-> IF isTestMode THEN "test-hydration-reminder"
                 ELSE "hydration-reminder",
         data |-> [url |-> "/", action |-> "hydration-reminder",
                   hour |-> currentHour, minute |-> currentMinute,
                   isTest |-> isTestMode]])

\* The populated userId of a loaded subscription.
Populate(rec) ==
    [hasOwner |-> rec.userId \in UserIds,
     owner |-> IF rec.userId \in UserIds THEN users[rec.userId]
               ELSE DefaultPrefs]

\* The endpoints of S in the order the collection scan returns them.
RECURSIVE ScanOrder(_)
ScanOrder(S) ==
    IF S = {}
    THEN <<>>
    ELSE LET first == CHOOSE e \in S : \A o \in S : e <= o
         IN <<first>> \o ScanOrder(S \ {first})

\* Subscription.getAllActiveSubscriptions(): the active records under the
\* failure threshold, hydrated with select('endpoint keys userId').
getAllActiveSubscriptions ==
    LET found == {e \in Endpoints :
                     /\ subscriptions[e].exists
                     /\ subscriptions[e].isActive
                     /\ subscriptions[e].failedAttempts < DeactivateThreshold}
        order == ScanOrder(found)
    IN [n \in 1..Len(order) |->
           Hydrate(order[n], subscriptions[order[n]], ActiveQuerySelection)]

\* sub.getWebPushFormat()
getWebPushFormat(sub) == [isObject |-> TRUE, endpoint |-> sub.endpoint]

\* What can go wrong in a run before its dispatch returns: nothing, or the
\* load of the subscriptions rejects.
TickFaults == {"none", "load"}

\* Mutant: the body of sendHydrationReminders without its try/catch.
caughtAtTickBoundaryNoTry(fault) == FALSE

\* Whether an exception raised in the body of sendHydrationReminders ends in
\* its catch block, which logs it and returns.
caughtAtTickBoundary(fault) == TRUE

\* sendHydrationReminders(isTestMode) from its start to the return of
\* sendBulkNotifications: load, filter, build the payload, dispatch.  With
\* nothing loaded or nothing due the run returns at once; `source` tells
\* whether the cron job or triggerManual made the call.
SendHydrationRemindersStart(k, isTestMode, currentHour, currentMinute, source) ==
    /\ ticks[k].pc = "idle"
    /\ \E fault \in TickFaults :
         IF fault # "none"
         THEN /\ ticks' = [ticks EXCEPT ![k] =
                     IF caughtAtTickBoundary(fault)
                     THEN [IdleTick EXCEPT !.pc = "caught",
                                           !.isTestMode = isTestMode,
                                           !.source = source]
                     ELSE IdleTick]
              /\ unhandled' = (unhandled \/ ~caughtAtTickBoundary(fault))
         ELSE
           /\ UNCHANGED unhandled
           /\ LET loaded == getAllActiveSubscriptions
                  enabledSubscriptions ==
                      SelectSeq(loaded,
                          LAMBDA sub : tickFilter(
                              Populate(subscriptions[sub.endpoint]),
                              currentHour, currentMinute, isTestMode))
                  notification == tickNotification(isTestMode, currentHour,
                                                   currentMinute)
                  subscriptionsToSend ==
                      [n \in 1..Len(enabledSubscriptions) |->
                          getWebPushFormat(enabledSubscriptions[n])]
              IN IF Len(loaded) = 0 \/ Len(enabledSubscriptions) = 0
                 THEN UNCHANGED ticks
                 ELSE \E answers \in
                          [1..Len(enabledSubscriptions) -> TickAnswers] :
                        LET sent == sendBulkNotifications(
                                        subscriptionsToSend, notification,
                                        answers, vapidKeys)
                        IN ticks' = [ticks EXCEPT ![k] =
                               IF sent.threw
                               THEN IdleTick
                               ELSE [pc |-> "recording",
                                     isTestMode |-> isTestMode,
                                     currentHour |-> currentHour,
                                     currentMinute |-> currentMinute,
                                     enabledSubscriptions |->
                                         enabledSubscriptions,
                                     results |-> sent.results,
                                     i |-> 1,
                                     successCount |-> 0,
                                     failedCount |-> 0,
                                     source |-> source]]
    /\ UNCHANGED <<users, subscriptions, age, revived, deletedCount, manual, cronJob, failRun>>
    /\ UNCHANGED <<testCronJob, minuteJobs, cleanupJobs, nodeEnv, vapidKeys,
                   lastCalls>>
    /\ UNCHANGED harnessVars

\* A registered every-minute job fires: cron.schedule('* * * * *',
\* () => sendHydrationReminders(false)).  node-cron does not wait for the
\* promise of an earlier run.
CronTick ==
    /\ minuteJobs > 0
    /\ \E k \in DOMAIN ticks, t \in TickTimes :
           SendHydrationRemindersStart(k, FALSE, t[1], t[2], "cron")

\* The catch block of sendHydrationReminders has logged the error: the run
\* returns.
TickCaught ==
    \E k \in DOMAIN ticks :
        /\ ticks[k].pc = "caught"
        /\ ticks' = [ticks EXCEPT ![k] = IdleTick]
        /\ UNCHANGED <<users, subscriptions, age, revived, deletedCount, manual, cronJob,
                       failRun, schedVars>>
        /\ UNCHANGED harnessVars

Min(a, b) == IF a <= b THEN a ELSE b

\* Mutant: a result loop whose catch block does not count the failure.
countOutcomeCatchUncounted(tick, success, saveError) ==
    IF saveError # ""
    THEN tick
    ELSE IF success
         THEN [tick EXCEPT !.successCount = @ + 1]
         ELSE [tick EXCEPT !.failedCount = @ + 1]

\* The counters of the result loop after one turn: successCount++ follows
\* the save of markAsSuccessful, failedCount++ follows the save of
\* markAsFailed, and the catch block counts a failure for a save that threw.
countOutcome(tick, success, saveError) ==
    IF success /\ saveError = ""
    THEN [tick EXCEPT !.successCount = @ + 1]
    ELSE [tick EXCEPT !.failedCount = @ + 1]

\* handleFailedNotification(subscription, error): the recommendation the
\* result loop logs and does not act on.
handleFailedNotification(error) ==
    [shouldRemove |-> error \in {"Gone", "Not Found", "Bad Request"},
     shouldRetry |-> error \in {"Too Many Requests", "Internal Server Error",
                                "Service Unavailable"},
     error |-> error]

\* One turn of the result loop of sendHydrationReminders: the outcome of
\* send i is recorded on subscription i; an error of the update is caught
\* and counted as a failure.  After the last turn the run logs its summary
\* and ends.
RecordResult(k) ==
    LET tick == ticks[k]
        result == tick.results[tick.i].result
        subscription == tick.enabledSubscriptions[tick.i]
        e == subscription.endpoint
        saved == IF result.success
                 THEN Save(markAsSuccessful(subscription), subscriptions[e])
                 ELSE Save(markAsFailed(subscription, result.error),
                           subscriptions[e])
        counted == countOutcome(tick, result.success, saved.error)
    IN /\ tick.pc = "recording"
       /\ subscriptions' = [subscriptions EXCEPT ![e] = saved.rec]
       /\ age' = IF saved.error = "" THEN [age EXCEPT ![e] = 0] ELSE age
       /\ failRun' =
              IF saved.error # ""
              THEN failRun
              ELSE IF result.success
                   THEN [failRun EXCEPT ![e] = 0]
                   ELSE [failRun EXCEPT ![e] = Min(@ + 1, MaxFailRun)]
       /\ ticks' = [ticks EXCEPT ![k] =
              IF tick.i = Len(tick.results)
              THEN IdleTick
              ELSE [counted EXCEPT !.i = @ + 1,
                        !.enabledSubscriptions[tick.i] = saved.doc]]
       /\ UNCHANGED <<users, revived, deletedCount, manual, cronJob, schedVars>>
       /\ UNCHANGED harnessVars

TickRecord == \E k \in DOMAIN ticks : RecordResult(k)

\* The documents of `docs` that were loaded from a record of S lose it when
\* the records of S are deleted.
OrphanDocs(docs, S) ==
    [n \in 1..Len(docs) |->
        IF docs[n].endpoint \in S
        THEN [docs[n] EXCEPT !.orphaned = TRUE]
        ELSE docs[n]]

\* The documents in flight that were loaded from the record of `endpoint`
\* lose it when that record is deleted.
Orphan(endpoint) ==
    [k \in DOMAIN ticks |->
        [ticks[k] EXCEPT !.enabledSubscriptions = OrphanDocs(@, {endpoint})]]

\* The same for the documents the POST /test handler holds.
OrphanManual(S) == [manual EXCEPT !.subscriptions = OrphanDocs(@, S)]

\* Whether a record is deactivated: inactive at the failure threshold.
Deactivated(rec) ==
    rec.exists /\ ~rec.isActive /\ rec.failedAttempts >= DeactivateThreshold

\* Mutant: an update of the owner's record that keeps the failure count.
subscribeUpdateKeepsCount(existing) == [existing EXCEPT !.isActive = TRUE]

\* The assignments POST /subscribe makes to the owner's existing record.
subscribeUpdate(existing) ==
    [existing EXCEPT !.isActive = TRUE, !.failedAttempts = 0]

\* POST /api/notifications/subscribe with valid subscription data: the
\* owner's record for the endpoint is updated in place; otherwise a record
\* of another user is deleted first and a new record is created.  The save
\* of an update writes, and refreshes updatedAt, when a path differs: the
\* two bookkeeping paths, or the keys and user agent of the request.
Subscribe(userId, endpoint) ==
    LET existing == subscriptions[endpoint]
    IN /\ IF existing.exists /\ existing.userId = userId
          THEN /\ subscriptions' = [subscriptions EXCEPT ![endpoint] =
                      subscribeUpdate(existing)]
               /\ \E sameKeys \in BOOLEAN :
                      age' = IF sameKeys /\ subscribeUpdate(existing) = existing
                             THEN age
                             ELSE [age EXCEPT ![endpoint] = 0]
               /\ revived' = IF Deactivated(existing)
                             THEN revived \cup {endpoint}
                             ELSE revived
               /\ UNCHANGED <<ticks, manual>>
          ELSE /\ subscriptions' = [subscriptions EXCEPT ![endpoint] =
                      NewRecord(userId)]
               /\ age' = [age EXCEPT ![endpoint] = 0]
               /\ revived' = revived \ {endpoint}
               /\ ticks' = IF existing.exists THEN Orphan(endpoint) ELSE ticks
               /\ manual' = IF existing.exists
                            THEN OrphanManual({endpoint}) ELSE manual
       /\ failRun' = [failRun EXCEPT ![endpoint] = 0]
       /\ UNCHANGED <<users, deletedCount, cronJob, schedVars>>
       /\ UNCHANGED harnessVars

\* Model.deleteMany / findOneAndDelete / findByIdAndDelete of the records of
\* the endpoints in S.
DeleteRecords(S) ==
    /\ subscriptions' =
           [e \in Endpoints |-> IF e \in S THEN NoRecord ELSE subscriptions[e]]
    /\ age' = [e \in Endpoints |-> IF e \in S THEN 0 ELSE age[e]]
    /\ revived' = revived \ S
    /\ failRun' = [e \in Endpoints |-> IF e \in S THEN 0 ELSE failRun[e]]
    /\ ticks' =
           [k \in DOMAIN ticks |->
               [ticks[k] EXCEPT !.enabledSubscriptions = OrphanDocs(@, S)]]
    /\ manual' = OrphanManual(S)

\* POST /api/notifications/unsubscribe: findOneAndDelete({endpoint, userId});
\* 404 and no change when the user owns no such record.
Unsubscribe(userId, endpoint) ==
    LET existing == subscriptions[endpoint]
    IN /\ IF existing.exists /\ existing.userId = userId
          THEN DeleteRecords({endpoint})
          ELSE UNCHANGED <<subscriptions, age, revived, failRun, ticks, manual>>
       /\ UNCHANGED <<users, deletedCount, cronJob, schedVars>>
       /\ UNCHANGED harnessVars

\* DELETE /api/notifications/subscriptions/:id with the _id of the record
\* stored for `endpoint`: findOne({_id, userId}), then findByIdAndDelete;
\* 404 and no change when the user owns no such record.
DeleteById(userId, endpoint) ==
    LET subscription == subscriptions[endpoint]
    IN /\ IF subscription.exists /\ subscription.userId = userId
          THEN DeleteRecords({endpoint})
          ELSE UNCHANGED <<subscriptions, age, revived, failRun, ticks, manual>>
       /\ UNCHANGED <<users, deletedCount, cronJob, schedVars>>
       /\ UNCHANGED harnessVars

\* cleanupInactiveSubscriptions keeps an inactive record this many days after
\* its last update.
RetentionDays == 30

\* cleanupInactiveSubscriptions deletes a record with this many failed
\* attempts.
CleanupAttempts == 10

\* Mutant: a filter that takes the 30th day as past.
cleanupFilterFromThirtyDays(rec, days) ==
    \/ ~rec.isActive /\ days >= RetentionDays
    \/ rec.failedAttempts >= CleanupAttempts

\* The filter of the deleteMany of cleanupInactiveSubscriptions: updatedAt
\* before thirtyDaysAgo on an inactive record, or failedAttempts >= 10.
cleanupFilter(rec, days) ==
    \/ ~rec.isActive /\ days > RetentionDays
    \/ rec.failedAttempts >= CleanupAttempts

\* The endpoints of the records cleanupInactiveSubscriptions() deletes.
cleanupInactiveSubscriptions ==
    {e \in Endpoints :
        subscriptions[e].exists /\ cleanupFilter(subscriptions[e], age[e])}

\* A registered daily cleanup job fires: cron.schedule('0 3 * * *',
\* cleanupSubscriptions).
DailyCleanup ==
    /\ cleanupJobs > 0
    /\ DeleteRecords(cleanupInactiveSubscriptions)
    /\ deletedCount' = Cardinality(cleanupInactiveSubscriptions)
    /\ UNCHANGED <<users, cronJob, schedVars>>
    /\ UNCHANGED harnessVars

\* The passing of days: every record not updated meanwhile grows older.
DaysPass ==
    /\ \E d \in {RetentionDays, RetentionDays + 1} :
           age' = [e \in Endpoints |->
                      IF subscriptions[e].exists /\ age[e] < d
                      THEN d ELSE age[e]]
    /\ age' # age
    /\ UNCHANGED <<users, subscriptions, revived, deletedCount, manual, cronJob,
                   ticks, failRun, schedVars>>
    /\ UNCHANGED harnessVars

\* Subscription.getActiveSubscriptionsForUser(userId): the user's active
\* records under the failure threshold, hydrated with
\* select('endpoint keys userAgent').
getActiveSubscriptionsForUser(userId) ==
    LET found == {e \in Endpoints :
                     /\ subscriptions[e].exists
                     /\ subscriptions[e].userId = userId
                     /\ subscriptions[e].isActive
                     /\ subscriptions[e].failedAttempts < DeactivateThreshold}
        order == ScanOrder(found)
    IN [n \in 1..Len(order) |->
           Hydrate(order[n], subscriptions[order[n]], ActiveQuerySelection)]

\* POST /api/notifications/test up to its loop: 503 without VAPID keys, 404
\* when the user has no active subscription.
TestSendStart(userId) ==
    /\ manual.pc = "idle"
    /\ manual' =
           IF ~vapidKeys \/ Len(getActiveSubscriptionsForUser(userId)) = 0
           THEN manual
           ELSE [pc |-> "sending",
                 subscriptions |-> getActiveSubscriptionsForUser(userId),
                 i |-> 1]
    /\ UNCHANGED <<users, subscriptions, age, revived, deletedCount, cronJob,
                   ticks, failRun, schedVars>>
    /\ UNCHANGED harnessVars

\* One turn of the loop of POST /test: the test notification is sent to
\* subscription i and the outcome recorded on it; when the update throws,
\* the catch block calls markAsFailed on the same document, and when that
\* throws too the handler answers 500.
TestSendRecord ==
    /\ manual.pc = "sending"
    /\ \E answer \in TickAnswers :
         LET subscription == manual.subscriptions[manual.i]
             e == subscription.endpoint
             result == sendNotification(getWebPushFormat(subscription),
                                        createTestNotification, answer,
                                        vapidKeys)
             saved == IF result.success
                      THEN Save(markAsSuccessful(subscription),
                                subscriptions[e])
                      ELSE Save(markAsFailed(subscription, result.error),
                                subscriptions[e])
             final == IF saved.error = ""
                      THEN saved
                      ELSE Save(markAsFailed(saved.doc, saved.error),
                                subscriptions[e])
         IN /\ subscriptions' = [subscriptions EXCEPT ![e] = final.rec]
            /\ age' = IF final.error = "" THEN [age EXCEPT ![e] = 0] ELSE age
            /\ failRun' =
                   IF final.error # ""
                   THEN failRun
                   ELSE IF result.success /\ saved.error = ""
                        THEN [failRun EXCEPT ![e] = 0]
                        ELSE [failRun EXCEPT ![e] = Min(@ + 1, MaxFailRun)]
            /\ manual' =
                   IF final.error # "" \/ manual.i = Len(manual.subscriptions)
                   THEN IdleManual
                   ELSE [manual EXCEPT !.i = @ + 1,
                             !.subscriptions[manual.i] = final.doc]
    /\ UNCHANGED <<users, revived, deletedCount, cronJob, ticks, schedVars>>
    /\ UNCHANGED harnessVars

\* POST /api/notifications/toggle
ToggleNotifications(userId, enabled) ==
    /\ users' = [users EXCEPT ![userId].notificationsEnabled = enabled]
    /\ UNCHANGED <<subscriptions, age, revived, deletedCount, manual, cronJob, ticks,
                   failRun, schedVars>>
    /\ UNCHANGED harnessVars

\* PUT /api/auth/profile with the three notification settings.
UpdateProfile(userId, input) ==
    /\ users' = [users EXCEPT
           ![userId].notificationStartHour = input.notificationStartHour,
           ![userId].notificationEndHour = input.notificationEndHour,
           ![userId].notificationFrequency = input.notificationFrequency]
    /\ UNCHANGED <<subscriptions, age, revived, deletedCount, manual, cronJob, ticks,
                   failRun, schedVars>>
    /\ UNCHANGED harnessVars

\* The module's job handles and the jobs registered with node-cron.
Scheduler ==
    [cronJob |-> cronJob, testCronJob |-> testCronJob,
     minuteJobs |-> minuteJobs, cleanupJobs |-> cleanupJobs]

\* Mutant: start() without its test for a job already held.
startNoGuard(s) ==
    [s EXCEPT !.cronJob = "scheduled", !.minuteJobs = @ + 1,
              !.cleanupJobs = @ + 1]

\* start(): unless a job is held, schedules the every-minute production job
\* and the daily cleanup job, whose handle is a local constant of the call.
\* The function declares no parameter: an argument passed to it is ignored.
start(s) ==
    IF s.cronJob # Null
    THEN s
    ELSE [s EXCEPT !.cronJob = "scheduled", !.minuteJobs = @ + 1,
                   !.cleanupJobs = @ + 1]

\* Mutant: stop() that clears the handles without destroying the jobs.
stopKeepsJobs(s) ==
    [s EXCEPT !.cronJob = Null, !.testCronJob = Null]

\* stop(): destroys each job held and clears its handle.
stop(s) ==
    LET s1 == IF s.cronJob # Null
              THEN [s EXCEPT !.cronJob = Null, !.minuteJobs = @ - 1]
              ELSE s
    IN IF s1.testCronJob # Null
       THEN [s1 EXCEPT !.testCronJob = Null, !.minuteJobs = @ - 1]
       ELSE s1

\* startTestMode(): nothing in production, otherwise stop() then start(true).
startTestMode(s, env) ==
    IF env = "production" THEN s ELSE start(stop(s))

\* startProductionMode(): stop() then start(false).
startProductionMode(s) == start(stop(s))

\* getStatus(): a job held and not destroyed reports 'scheduled'.
getStatus(s) ==
    [production |-> [isRunning |-> s.cronJob # Null],
     test |-> [isRunning |-> s.testCronJob # Null]]

\* The scheduler module's variables after a start or stop function.
SetScheduler(s) ==
    /\ s.cleanupJobs <= MaxCleanupJobs
    /\ cronJob' = s.cronJob
    /\ testCronJob' = s.testCronJob
    /\ minuteJobs' = s.minuteJobs
    /\ cleanupJobs' = s.cleanupJobs
    /\ UNCHANGED <<users, subscriptions, age, revived, deletedCount, manual, ticks, failRun>>
    /\ UNCHANGED <<nodeEnv, vapidKeys, unhandled>>
    /\ UNCHANGED harnessVars

\* A call of start(); the caller's history is left to the specification.
Start == SetScheduler(start(Scheduler))

\* A call of stop().
Stop == SetScheduler(stop(Scheduler))

\* Mutant: triggerManual without its NODE_ENV test.
triggerManualLockedNever(env) == FALSE

\* The first test of triggerManual: disabled when NODE_ENV is production.
triggerManualLocked(env) == env = "production"

\* triggerManual(testMode): one run of sendHydrationReminders(testMode),
\* or nothing at all when locked.
TriggerManual(testMode) ==
    IF triggerManualLocked(nodeEnv)
    THEN UNCHANGED vars
    ELSE \E k \in DOMAIN ticks, t \in TickTimes :
             SendHydrationRemindersStart(k, testMode, t[1], t[2], "manual")

Init ==
    /\ DueIdle
    /\ BulkIdle
    /\ DocIdle
    /\ PayIdle
    /\ RegIdle
    /\ SysInit

Next ==
    \/ /\ cronJob = Null => cleanupJobs < MaxServerStarts
       /\ Start
       /\ UNCHANGED lastCalls
    \/ Stop /\ UNCHANGED lastCalls
    \/ CronTick
    \/ TickCaught
    \/ TickRecord
    \/ \E u \in UserIds, e \in Endpoints : Subscribe(u, e)
    \/ \E u \in UserIds, e \in Endpoints : Unsubscribe(u, e)
    \/ \E u \in UserIds, enabled \in BOOLEAN : ToggleNotifications(u, enabled)
    \/ \E u \in UserIds, input \in ProfileInputs : UpdateProfile(u, input)

Spec == Init /\ [][Next]_vars

(***************************************************************************)
(* Claims about the running system (Spec)                                  *)
(***************************************************************************)

\* Slot k starts a run that reaches the dispatch in this step.
Dispatches(k) == ticks[k].pc = "idle" /\ ticks'[k].pc = "recording"

\* Slot k records the outcome of its send number ticks[k].i in this step.
Records(k) ==
    /\ ticks[k].pc = "recording"
    /\ \/ ticks'[k].pc = "idle"
       \/ ticks'[k].pc = "recording" /\ ticks'[k].i = ticks[k].i + 1

\* C1: a production tick selects the subscriptions of an enabled everyHour
\* user only at minute 0 of an hour inside the user's window (so at 9:00 but
\* neither at 9:01 nor at 18:00 for the window 9..17): of the 60 ticks of a
\* clock hour only the one at minute 0 selects them.
C1_HourlyTickAtMinuteZero ==
    [][\A k \in Slots :
          (Dispatches(k) /\ ~ticks'[k].isTestMode) =>
              \A n \in 1..Len(ticks'[k].enabledSubscriptions) :
                  LET owner ==
                          users[ticks'[k].enabledSubscriptions[n].userId]
                  IN owner.notificationFrequency = "1hr" =>
                         /\ ticks'[k].currentMinute = 0
                         /\ InWindow(owner, ticks'[k].currentHour)]_vars

\* C6: a record created active with no failed attempt is inactive exactly
\* when the markAsFailed calls applied to it since its creation or its last
\* markAsSuccessful number five or more: it goes inactive at the fifth
\* consecutive failure, not earlier, and once.
C6_DeactivationThreshold ==
    \A e \in Endpoints :
        subscriptions[e].exists =>
            (~subscriptions[e].isActive <=> failRun[e] >= DeactivateThreshold)

\* C7: when a tick records a failed send on a subscription, the record's
\* failedAttempts is one more than before, its lastError is the failure
\* message, and it is inactive iff the new count is 5.
C7_FailureIncrementsByOne ==
    [][\A k \in Slots :
          LET tick == ticks[k]
              sub == tick.enabledSubscriptions[tick.i]
              e == sub.endpoint
          IN ( /\ Records(k)
               /\ ~tick.results[tick.i].result.success
               /\ subscriptions[e].exists
               /\ ~sub.orphaned )
             => /\ subscriptions'[e].failedAttempts
                      = subscriptions[e].failedAttempts + 1
                /\ subscriptions'[e].lastError
                      = tick.results[tick.i].result.error
                /\ ~subscriptions'[e].isActive
                      <=> subscriptions'[e].failedAttempts
                              = DeactivateThreshold]_vars

\* C8: a subscription whose send failed at five due ticks in a row is
\* inactive from the fifth on, and no later tick dispatches to it unless
\* it is registered again.
C8_EventualDeactivation ==
    [][ /\ \A e \in Endpoints :
             ( subscriptions'[e].exists
               /\ failRun'[e] >= DeactivateThreshold )
             => ~subscriptions'[e].isActive
        /\ \A k \in Slots :
             Dispatches(k) =>
                 \A n \in 1..Len(ticks'[k].enabledSubscriptions) :
                     failRun[ticks'[k].enabledSubscriptions[n].endpoint]
                         < DeactivateThreshold ]_vars

(***************************************************************************)
(* SpecSched: the scheduler module's functions and overlapping runs        *)
(***************************************************************************)

\* Runs of sendHydrationReminders in flight together when a run may outlast
\* the minute between two firings of the job.
MaxOverlap == 2

\* One subscription of user 1 is registered; the environment is any.
SchedInit ==
    /\ DueIdle
    /\ BulkIdle
    /\ DocIdle
    /\ PayIdle
    /\ RegIdle
    /\ users = [u \in UserIds |-> DefaultPrefs]
    /\ subscriptions =
           [e \in Endpoints |-> IF e = 1 THEN NewRecord(1) ELSE NoRecord]
    /\ StoreIdle
    /\ SchedIdle
    /\ nodeEnv \in NodeEnvs
    /\ vapidKeys \in BOOLEAN
    /\ ticks = [k \in 1..MaxOverlap |-> IdleTick]
    /\ failRun = [e \in Endpoints |-> 0]

\* The history of the start and stop functions called.
Called(name) == lastCalls' = <<lastCalls[2], name>>

CallStart == Start /\ Called("start")

CallStop == Stop /\ Called("stop")

CallStartTestMode ==
    SetScheduler(startTestMode(Scheduler, nodeEnv)) /\ Called("startTestMode")

CallStartProductionMode ==
    SetScheduler(startProductionMode(Scheduler))
        /\ Called("startProductionMode")

SchedNext ==
    \/ CallStart
    \/ CallStop
    \/ CallStartTestMode
    \/ CallStartProductionMode
    \/ CronTick
    \/ TickCaught
    \/ TickRecord
    \/ \E testMode \in BOOLEAN : TriggerManual(testMode)

SpecSched == SchedInit /\ [][SchedNext]_vars

\* The runs in flight that the cron job started.
CronRuns == {k \in DOMAIN ticks :
                ticks[k].pc # "idle" /\ ticks[k].source = "cron"}

\* Slot k starts a run for the cron job in this step.
CronStarts(k) ==
    /\ ticks[k].pc = "idle"
    /\ ticks'[k].pc # "idle"
    /\ ticks'[k].source = "cron"

\* C11: ticks never overlap: at no time are two runs of the tick body that
\* the every-minute job started in progress together.
C11_TicksNeverOverlap == Cardinality(CronRuns) <= 1

C13_ModeTransitions ==
    /\ (lastCalls[2] = "startTestMode" /\ nodeEnv # "production") =>
           /\ getStatus(Scheduler).test.isRunning
           /\ ~getStatus(Scheduler).production.isRunning
    /\ lastCalls[2] \in {"start", "startProductionMode"} =>
           /\ getStatus(Scheduler).production.isRunning
           /\ ~getStatus(Scheduler).test.isRunning

C16_ManualTriggerLock ==
    nodeEnv = "production" =>
        \A k \in DOMAIN ticks : ticks[k].source # "manual"

\* Outside production, triggerManual(true) has started exactly one run.
C16_Witness ==
    /\ nodeEnv = "development"
    /\ Cardinality({k \in DOMAIN ticks : ticks[k].pc # "idle"}) = 1
    /\ \E k \in DOMAIN ticks :
           /\ ticks[k].pc = "recording"
           /\ ticks[k].source = "manual"
           /\ ticks[k].isTestMode

\* C18: a send that fails because the VAPID keys are not configured is not
\* recorded against the subscription: its failedAttempts and lastError stay
\* as they were.
C18_ConfigurationErrorNotRecorded ==
    [][\A k \in DOMAIN ticks :
          LET tick == ticks[k]
              e == tick.enabledSubscriptions[tick.i].endpoint
          IN ( /\ Records(k)
               /\ tick.results[tick.i].result.error
                      = "VAPID keys not configured" )
             => /\ subscriptions'[e].failedAttempts
                      = subscriptions[e].failedAttempts
                /\ subscriptions'[e].lastError
                      = subscriptions[e].lastError]_vars

\* C17: the subscriptions a starting run dispatches to are stored, active,
\* under the failure threshold, and owned by a user who passes the
\* due-check at the run's hour and minute.
C17_DispatchOnlyToDue ==
    [][\A k \in DOMAIN ticks :
          Dispatches(k) =>
              \A n \in 1..Len(ticks'[k].enabledSubscriptions) :
                  LET rec == subscriptions[
                                 ticks'[k].enabledSubscriptions[n].endpoint]
                  IN /\ rec.exists
                     /\ rec.isActive
                     /\ rec.failedAttempts < DeactivateThreshold
                     /\ rec.userId \in UserIds
                     /\ shouldReceiveNotificationAtHour(users[rec.userId],
                            ticks'[k].currentHour, ticks'[k].currentMinute,
                            ticks'[k].isTestMode)]_vars

(***************************************************************************)
(* SpecPayload: the notification payloads                                  *)
(***************************************************************************)

\* Who builds a payload: POST /test through createTestNotification, a run
\* of sendHydrationReminders in test or in production mode, or
\* createHydrationNotification called without options.
TestIntents == {"createTestNotification", "testTick"}
RealIntents == {"productionTick", "default"}
PayIntents == TestIntents \cup RealIntents

PayInit ==
    /\ DueIdle
    /\ BulkIdle
    /\ DocIdle
    /\ RegIdle
    /\ SysInit
    /\ payIntent \in PayIntents
    /\ payTime \in Hours \X Minutes
    /\ payload = NoPayload

\* The builder runs.
BuildPayload ==
    /\ payload = NoPayload
    /\ payload' =
           CASE payIntent = "createTestNotification" -> createTestNotification
             [] payIntent = "testTick" ->
                    tickNotification(TRUE, payTime[1], payTime[2])
             [] payIntent = "productionTick" ->
                    tickNotification(FALSE, payTime[1], payTime[2])
             [] OTHER -> createHydrationNotification(<<>>)
    /\ UNCHANGED <<payIntent, payTime, dueVars, bulkVars, docVars, sysVars,
                   regVars>>

PayNext == BuildPayload

SpecPayload == PayInit /\ [][PayNext]_vars

\* C19: a payload built for the test intent has tag test-hydration-reminder,
\* data.isTest true, requireInteraction true and the two actions of a real
\* reminder; a payload built for the real intent has tag hydration-reminder
\* and requireInteraction false.
C19_PayloadDistinguishability ==
    payload # NoPayload =>
        /\ payIntent \in TestIntents =>
               /\ payload.tag = "test-hydration-reminder"
               /\ payload.data.isTest = TRUE
               /\ payload.requireInteraction = TRUE
               /\ payload.actions = <<"log-water", "snooze">>
        /\ payIntent \in RealIntents =>
               /\ payload.tag = "hydration-reminder"
               /\ payload.requireInteraction = FALSE

(***************************************************************************)
(* SpecRegister: the subscribe and unsubscribe routes, step by step        *)
(***************************************************************************)

\* Requests to POST /subscribe in progress together.
MaxRequests == 2

\* The _ids the driver hands out to inserted records.
MaxIds == 3

\* A request slot holding no request; status is the last response sent.
IdleRequest ==
    [pc |-> "idle", userId |-> 0, endpoint |-> 0, found |-> 0, status |-> 0]

\* The records of the collection that match a filter on endpoint.
findByEndpoint(st, endpoint) == {r \in st : r.endpoint = endpoint}

\* Mutant: the collection without the unique index on endpoint.
insertOneNoIndex(st, rec) == [error |-> "", store |-> st \cup {rec}]

\* The insert of a new record: the unique index on endpoint rejects a
\* second record for an endpoint (E11000).
insertOne(st, rec) ==
    IF findByEndpoint(st, rec.endpoint) # {}
    THEN [error |-> "E11000 duplicate key", store |-> st]
    ELSE [error |-> "", store |-> st \cup {rec}]

RegInit ==
    /\ DueIdle
    /\ BulkIdle
    /\ DocIdle
    /\ PayIdle
    /\ SysInit
    /\ store = {}
    /\ requests = [q \in 1..MaxRequests |-> IdleRequest]
    /\ nextId = 1

\* The requests that have not been answered yet.
InProgress == {q \in DOMAIN requests : requests[q].pc # "idle"}

\* POST /subscribe by userId for endpoint, up to the answer of
\* findOne({userId, endpoint}).
SubscribeFindOne(q, userId, endpoint) ==
    /\ requests[q].pc = "idle"
    /\ nextId + Cardinality(InProgress) <= MaxIds
    /\ LET existing == {r \in findByEndpoint(store, endpoint) :
                           r.userId = userId}
       IN requests' = [requests EXCEPT ![q] =
              IF existing # {}
              THEN [pc |-> "update", userId |-> userId,
                    endpoint |-> endpoint,
                    found |-> (CHOOSE r \in existing : TRUE).id,
                    status |-> 0]
              ELSE [pc |-> "findByEndpoint", userId |-> userId,
                    endpoint |-> endpoint, found |-> 0, status |-> 0]]
    /\ UNCHANGED <<store, nextId>>
    /\ UNCHANGED <<dueVars, bulkVars, docVars, sysVars, payVars>>

\* existingUserSubscription.save(): an update of the record with the
\* document's _id when a path was modified, nothing otherwise.
SubscribeUpdate(q) ==
    /\ requests[q].pc = "update"
    /\ \E modified \in BOOLEAN :
           requests' = [requests EXCEPT ![q] =
               [IdleRequest EXCEPT !.status =
                   IF modified
                      /\ ~\E r \in store : r.id = requests[q].found
                   THEN 500 ELSE 200]]
    /\ UNCHANGED <<store, nextId>>
    /\ UNCHANGED <<dueVars, bulkVars, docVars, sysVars, payVars>>

\* Subscription.findByEndpoint(endpoint) and the test for another owner.
SubscribeFindByEndpoint(q) ==
    /\ requests[q].pc = "findByEndpoint"
    /\ LET existingEndpoint == findByEndpoint(store, requests[q].endpoint)
           other == {r \in existingEndpoint :
                        r.userId # requests[q].userId}
       IN requests' = [requests EXCEPT ![q] =
              IF other # {}
              THEN [@ EXCEPT !.pc = "delete",
                             !.found = (CHOOSE r \in other : TRUE).id]
              ELSE [@ EXCEPT !.pc = "create"]]
    /\ UNCHANGED <<store, nextId>>
    /\ UNCHANGED <<dueVars, bulkVars, docVars, sysVars, payVars>>

\* Subscription.findByIdAndDelete(existingEndpoint._id)
SubscribeDelete(q) ==
    /\ requests[q].pc = "delete"
    /\ store' = {r \in store : r.id # requests[q].found}
    /\ requests' = [requests EXCEPT ![q].pc = "create"]
    /\ UNCHANGED nextId
    /\ UNCHANGED <<dueVars, bulkVars, docVars, sysVars, payVars>>

\* newSubscription.save() and the response: 201, or 500 from the catch.
SubscribeCreate(q) ==
    /\ requests[q].pc = "create"
    /\ LET inserted == insertOne(store,
                           [id |-> nextId,
                            endpoint |-> requests[q].endpoint,
                            userId |-> requests[q].userId])
       IN /\ store' = inserted.store
          /\ nextId' = IF inserted.error = "" THEN nextId + 1 ELSE nextId
          /\ requests' = [requests EXCEPT ![q] =
                 [IdleRequest EXCEPT !.status =
                     IF inserted.error = "" THEN 201 ELSE 500]]
    /\ UNCHANGED <<dueVars, bulkVars, docVars, sysVars, payVars>>

\* POST /unsubscribe: findOneAndDelete({endpoint, userId}).
RegUnsubscribe(userId, endpoint) ==
    /\ store' = {r \in store :
                    ~(r.endpoint = endpoint /\ r.userId = userId)}
    /\ UNCHANGED <<requests, nextId>>
    /\ UNCHANGED <<dueVars, bulkVars, docVars, sysVars, payVars>>

RegNext ==
    \/ \E q \in DOMAIN requests, u \in UserIds, e \in Endpoints :
           SubscribeFindOne(q, u, e)
    \/ \E q \in DOMAIN requests : SubscribeUpdate(q)
    \/ \E q \in DOMAIN requests : SubscribeFindByEndpoint(q)
    \/ \E q \in DOMAIN requests : SubscribeDelete(q)
    \/ \E q \in DOMAIN requests : SubscribeCreate(q)
    \/ \E u \in UserIds, e \in Endpoints : RegUnsubscribe(u, e)

SpecRegister == RegInit /\ [][RegNext]_vars

\* C20: whatever the interleaving of subscribe and unsubscribe requests,
\* the store never holds two records for one endpoint; a re-registration by
\* the owner answered 200 leaves the set of records as it was; a
\* registration answered 201 leaves the requester as the owner of the one
\* record of the endpoint.
C20_SubscribeIsUpsert ==
    [][ /\ \A r1, r2 \in store' :
             r1.endpoint = r2.endpoint => r1 = r2
        /\ \A q \in DOMAIN requests :
             ( requests[q].pc = "update" /\ requests'[q].pc = "idle" ) =>
                 store' = store
        /\ \A q \in DOMAIN requests :
             ( /\ requests[q].pc = "create"
               /\ requests'[q].pc = "idle"
               /\ requests'[q].status = 201 ) =>
                 \A r \in findByEndpoint(store', requests[q].endpoint) :
                     /\ r.userId = requests[q].userId
                     /\ r \notin store ]_vars

\* Two requests of different users raced for one endpoint: one was answered
\* 201, the other 500, and the endpoint has the one record of the first.
C20_Witness ==
    /\ requests[1].pc = "idle"
    /\ requests[2].pc = "idle"
    /\ requests[1].status = 201
    /\ requests[2].status = 500
    /\ Cardinality(findByEndpoint(store, 1)) = 1
    /\ Cardinality(store) = 1

(***************************************************************************)
(* SpecStore: a started server over a collection holding any records       *)
(***************************************************************************)

\* The days since the last update of a record that the cleanup tells apart.
StoreAges == {0, RetentionDays, RetentionDays + 1}

\* The failure counts that the queries and the cleanup tell apart.
StoreAttempts ==
    {0, DeactivateThreshold - 1, DeactivateThreshold, CleanupAttempts - 1,
     CleanupAttempts}

\* The records of user 1 that the schema admits, up to those distinctions.
StoreRecords ==
    {rec \in StoredRecords :
        /\ rec.failedAttempts \in StoreAttempts
        /\ rec.lastError = (IF rec.failedAttempts = 0 THEN Null ELSE "Gone")
        /\ rec.lastNotificationSent = Null}

\* The server has started; each endpoint holds no record or any record of
\* user 1, last updated any number of days ago.
StoreInit ==
    /\ DueIdle
    /\ BulkIdle
    /\ DocIdle
    /\ PayIdle
    /\ RegIdle
    /\ users = [u \in UserIds |-> DefaultPrefs]
    /\ subscriptions \in [Endpoints -> StoreRecords \cup {NoRecord}]
    /\ age \in [Endpoints -> StoreAges]
    /\ \A e \in Endpoints : ~subscriptions[e].exists => age[e] = 0
    /\ revived = {}
    /\ deletedCount = -1
    /\ manual = IdleManual
    /\ cronJob = "scheduled"
    /\ testCronJob = Null
    /\ minuteJobs = 1
    /\ cleanupJobs = 1
    /\ lastCalls = <<"none", "start">>
    /\ unhandled = FALSE
    /\ nodeEnv = ServerEnv
    /\ vapidKeys = VapidKeysSet
    /\ ticks = [k \in Slots |-> IdleTick]
    /\ failRun = [e \in Endpoints |-> 0]

StoreNext ==
    \/ DailyCleanup
    \/ \E u \in UserIds, e \in Endpoints : Subscribe(u, e)
    \/ \E u \in UserIds, e \in Endpoints : Unsubscribe(u, e)
    \/ \E u \in UserIds, e \in Endpoints : DeleteById(u, e)
    \/ CronTick
    \/ TickCaught
    \/ TickRecord

SpecStore == StoreInit /\ [][StoreNext]_vars

\* C21: a run of the daily cleanup deletes exactly the records that are
\* inactive and were last updated more than 30 days ago, or whose
\* failedAttempts is at least 10.  It deletes no active record with
\* failedAttempts < 10 and no inactive record with failedAttempts < 10 that
\* was updated within the last 30 days, and a record that survives keeps
\* every field and its updatedAt.
C21_CleanupExact ==
    [][DailyCleanup =>
        \A e \in Endpoints :
            LET rec == subscriptions[e]
                expired == \/ ~rec.isActive /\ age[e] > 30
                           \/ rec.failedAttempts >= 10
            IN /\ (rec.exists /\ expired) => ~subscriptions'[e].exists
               /\ (rec.exists /\ ~expired) =>
                      (subscriptions'[e] = rec /\ age'[e] = age[e])
               /\ (rec.exists /\ rec.isActive /\ rec.failedAttempts < 10) =>
                      subscriptions'[e] = rec
               /\ ( /\ rec.exists
                    /\ ~rec.isActive
                    /\ rec.failedAttempts < 10
                    /\ age[e] <= 30 ) => subscriptions'[e] = rec
               /\ ~rec.exists => ~subscriptions'[e].exists ]_vars

\* The cleanup has deleted one record and kept an inactive record whose last
\* update is exactly 30 days old.
C21_Witness ==
    /\ deletedCount = 1
    /\ ~subscriptions[1].exists
    /\ subscriptions[2].exists
    /\ ~subscriptions[2].isActive
    /\ subscriptions[2].failedAttempts = DeactivateThreshold
    /\ age[2] = RetentionDays

\* The counters that the run in slot k holds after the turn of the result
\* loop it is at: those of its summary when the turn is the last.
LoopCounters(k) ==
    LET tick == ticks[k]
        result == tick.results[tick.i].result
        subscription == tick.enabledSubscriptions[tick.i]
        saved == IF result.success
                 THEN Save(markAsSuccessful(subscription),
                           subscriptions[subscription.endpoint])
                 ELSE Save(markAsFailed(subscription, result.error),
                           subscriptions[subscription.endpoint])
    IN countOutcome(tick, result.success, saved.error)

\* C23: in the result loop of a run every due subscription gets one turn.
\* The turn changes no record but the subscription's own, and its record
\* either gets the bookkeeping of a success (for a delivered send), or the
\* bookkeeping of a failure (for a failed send), or stays as it is when the
\* update throws; whichever happens the loop goes on to the next
\* subscription, and successCount + failedCount is the number of turns
\* taken, so the number of due subscriptions once the loop ends.
C23_OneOutcomePerSubscription ==
    [][\A k \in DOMAIN ticks :
          LET tick == ticks[k]
              result == tick.results[tick.i].result
              e == tick.enabledSubscriptions[tick.i].endpoint
          IN Records(k) =>
              /\ Len(tick.results) = Len(tick.enabledSubscriptions)
              /\ tick.successCount + tick.failedCount = tick.i - 1
              /\ \A o \in Endpoints \ {e} : subscriptions'[o] = subscriptions[o]
              /\ \/ subscriptions'[e] = subscriptions[e]
                 \/ /\ result.success
                    /\ subscriptions'[e].lastNotificationSent = "sent"
                    /\ subscriptions'[e].failedAttempts = 0
                    /\ subscriptions'[e].lastError = Null
                 \/ /\ ~result.success
                    /\ subscriptions'[e].lastError = result.error
                    /\ subscriptions'[e].failedAttempts > 0
                    /\ subscriptions'[e].lastNotificationSent
                           = subscriptions[e].lastNotificationSent
              /\ LoopCounters(k).successCount + LoopCounters(k).failedCount
                     = tick.i
              /\ IF tick.i < Len(tick.results)
                 THEN /\ ticks'[k].pc = "recording"
                      /\ ticks'[k].successCount = LoopCounters(k).successCount
                      /\ ticks'[k].failedCount = LoopCounters(k).failedCount
                 ELSE ticks'[k].pc = "idle"]_vars

\* The update of the first of two due subscriptions threw, because its
\* record was replaced after the dispatch: the turn counted a failure for
\* the delivered send and the loop is at the second subscription.
C23_Witness ==
    \E k \in DOMAIN ticks :
        /\ ticks[k].pc = "recording"
        /\ Len(ticks[k].enabledSubscriptions) = 2
        /\ ticks[k].i = 2
        /\ ticks[k].results[1].result.success
        /\ ticks[k].enabledSubscriptions[1].orphaned
        /\ ticks[k].successCount = 0
        /\ ticks[k].failedCount = 1

\* C24: when a tick records a failed send, whether handleFailedNotification
\* classifies the failure as permanent, as transient or as neither, the
\* record stays stored, its failedAttempts is one more than before and its
\* lastError is the failure message; it becomes inactive only when the new
\* count reaches 5.
C24_ClassificationIsInformational ==
    [][\A k \in DOMAIN ticks :
          LET tick == ticks[k]
              result == tick.results[tick.i].result
              sub == tick.enabledSubscriptions[tick.i]
              e == sub.endpoint
          IN ( /\ Records(k)
               /\ ~result.success
               /\ subscriptions[e].exists
               /\ ~sub.orphaned )
             => \A shouldRemove \in BOOLEAN :
                    handleFailedNotification(result.error).shouldRemove
                        = shouldRemove
                    => /\ subscriptions'[e].exists
                       /\ subscriptions'[e].failedAttempts
                              = subscriptions[e].failedAttempts + 1
                       /\ subscriptions'[e].lastError = result.error
                       /\ subscriptions'[e].isActive # subscriptions[e].isActive
                              => subscriptions'[e].failedAttempts
                                     >= DeactivateThreshold]_vars

\* C27: a run dispatches only to subscriptions that are due at its tick
\* (stored, active, under the failure threshold, owned by a user who passes
\* the due-check at the tick's hour and minute), and each turn of its result
\* loop changes no record but the one of the turn's subscription: the
\* records of the subscriptions that are not due at the tick keep their
\* failedAttempts, isActive, lastError and lastNotificationSent.
C27_TickTouchesOnlyDue ==
    [][\A k \in DOMAIN ticks :
          /\ Dispatches(k) =>
                 /\ UNCHANGED subscriptions
                 /\ \A n \in 1..Len(ticks'[k].enabledSubscriptions) :
                        LET rec == subscriptions[
                                ticks'[k].enabledSubscriptions[n].endpoint]
                        IN /\ rec.exists
                           /\ rec.isActive
                           /\ rec.failedAttempts < DeactivateThreshold
                           /\ rec.userId \in UserIds
                           /\ shouldReceiveNotificationAtHour(
                                  users[rec.userId], ticks'[k].currentHour,
                                  ticks'[k].currentMinute,
                                  ticks'[k].isTestMode)
          /\ Records(k) =>
                 \A o \in Endpoints :
                     o # ticks[k].enabledSubscriptions[ticks[k].i].endpoint
                     => subscriptions'[o] = subscriptions[o]]_vars

\* C28: the bookkeeping of a run never creates a record: a turn of the
\* result loop on a subscription whose record was deleted after the run
\* loaded it (by unsubscribe, by delete by id, by the cleanup or by another
\* user's registration of the endpoint) changes nothing in the collection,
\* also when the endpoint has been registered again meanwhile.
C28_DeletedStaysDeleted ==
    [][\A k \in DOMAIN ticks :
          LET sub == ticks[k].enabledSubscriptions[ticks[k].i]
          IN Records(k) =>
                 /\ \A e \in Endpoints :
                        subscriptions'[e].exists => subscriptions[e].exists
                 /\ (sub.orphaned \/ ~subscriptions[sub.endpoint].exists)
                        => UNCHANGED subscriptions]_vars

\* The record of the first of two dispatched subscriptions was deleted while
\* the run was in flight; the run has taken the turn of that subscription
\* and the record is still absent.
C28_Witness ==
    \E k \in DOMAIN ticks :
        /\ ticks[k].pc = "recording"
        /\ ticks[k].i = 2
        /\ ticks[k].enabledSubscriptions[1].orphaned
        /\ ticks[k].failedCount = 1
        /\ ~subscriptions[ticks[k].enabledSubscriptions[1].endpoint].exists

\* C30: a subscribe request of the owner for an endpoint whose record is
\* deactivated (isActive = false, failedAttempts >= 5) leaves the record
\* with isActive = true and failedAttempts = 0, so that the next tick's
\* load returns it.
C30_ReRegistrationRevives ==
    [][\A u \in UserIds, e \in Endpoints :
          ( /\ Subscribe(u, e)
            /\ subscriptions[e].exists
            /\ subscriptions[e].userId = u
            /\ ~subscriptions[e].isActive
            /\ subscriptions[e].failedAttempts >= 5 )
          => /\ subscriptions'[e].exists
             /\ subscriptions'[e].userId = u
             /\ subscriptions'[e].isActive
             /\ subscriptions'[e].failedAttempts = 0
             /\ \E n \in DOMAIN getAllActiveSubscriptions' :
                    getAllActiveSubscriptions'[n].endpoint = e]_vars

\* A deactivated record was reactivated by its owner's subscribe request and
\* a later tick has loaded it and dispatched to it.
C30_Witness ==
    /\ 2 \in revived
    /\ subscriptions[2].isActive
    /\ subscriptions[2].failedAttempts = 0
    /\ \E k \in DOMAIN ticks :
           /\ ticks[k].pc = "recording"
           /\ \E n \in 1..Len(ticks[k].enabledSubscriptions) :
                  /\ ticks[k].enabledSubscriptions[n].endpoint = 2
                  /\ ~ticks[k].enabledSubscriptions[n].orphaned

\* C29: after any sequence of calls of the start and stop functions at most
\* one daily cleanup job is registered with node-cron, and when the last
\* call was stop() no job that start() scheduled is registered any more.
C29_JobsOfStartEndWithStop ==
    /\ cleanupJobs <= 1
    /\ lastCalls[2] = "stop" => (minuteJobs = 0 /\ cleanupJobs = 0)

(***************************************************************************)
(* SpecOverlap: overlapping runs, manual test sends, registration and      *)
(* cleanup on one endpoint                                                 *)
(***************************************************************************)

\* The endpoint the users register, test and delete.
OverlapEndpoints == {1}

\* The server has started; nothing is registered yet.
OverlapInit ==
    /\ DueIdle
    /\ BulkIdle
    /\ DocIdle
    /\ PayIdle
    /\ RegIdle
    /\ users = [u \in UserIds |-> DefaultPrefs]
    /\ subscriptions = [e \in Endpoints |-> NoRecord]
    /\ StoreIdle
    /\ cronJob = "scheduled"
    /\ testCronJob = Null
    /\ minuteJobs = 1
    /\ cleanupJobs = 1
    /\ lastCalls = <<"none", "start">>
    /\ unhandled = FALSE
    /\ nodeEnv = ServerEnv
    /\ vapidKeys = VapidKeysSet
    /\ ticks = [k \in 1..MaxOverlap |-> IdleTick]
    /\ failRun = [e \in Endpoints |-> 0]

OverlapNext ==
    \/ \E u \in UserIds, e \in OverlapEndpoints : Subscribe(u, e)
    \/ \E u \in UserIds, e \in OverlapEndpoints : Unsubscribe(u, e)
    \/ \E u \in UserIds, e \in OverlapEndpoints : DeleteById(u, e)
    \/ CronTick
    \/ TickCaught
    \/ TickRecord
    \/ \E u \in UserIds : TestSendStart(u)
    \/ TestSendRecord
    \/ DailyCleanup
    \/ DaysPass

SpecOverlap == OverlapInit /\ [][OverlapNext]_vars

\* C25: whatever the interleaving of ticks, manual test sends, subscribe
\* and delete requests and cleanup runs, every stored subscription has
\* 0 <= failedAttempts <= 5, so that no stored subscription ever satisfies
\* the cleanup's condition failedAttempts >= 10.
C25_FailedAttemptsBounded ==
    \A e \in Endpoints :
        subscriptions[e].exists =>
            /\ 0 <= subscriptions[e].failedAttempts
            /\ subscriptions[e].failedAttempts <= 5
            /\ ~(subscriptions[e].failedAttempts >= 10)

\* Five failed sends in a row have been recorded on a stored subscription,
\* the last cleanup run found nothing to delete, and a tick and a manual
\* test send are in flight.
C25_Witness ==
    /\ subscriptions[1].exists
    /\ subscriptions[1].failedAttempts > 0
    /\ failRun[1] = MaxFailRun
    /\ deletedCount = 0
    /\ manual.pc = "sending"
    /\ \E k \in DOMAIN ticks : ticks[k].pc = "recording"

\* C26: in every state, whatever runs overlap (two ticks, or a tick and a
\* manual test send, each save writing only the paths its document
\* modified), a stored subscription is inactive iff its failedAttempts is
\* at least 5.
C26_ActiveIffUnderThreshold ==
    \A e \in Endpoints :
        subscriptions[e].exists =>
            (~subscriptions[e].isActive
                 <=> subscriptions[e].failedAttempts >= DeactivateThreshold)

\* Two ticks and a manual test send hold a document of the same stored
\* record, on which a failure has been recorded, and one tick is about to
\* record a success, the other a failure.
C26_Witness ==
    /\ subscriptions[1].exists
    /\ subscriptions[1].failedAttempts > 0
    /\ manual.pc = "sending"
    /\ ~manual.subscriptions[1].orphaned
    /\ \A k \in DOMAIN ticks :
           /\ ticks[k].pc = "recording"
           /\ ~ticks[k].enabledSubscriptions[1].orphaned
    /\ \E k1, k2 \in DOMAIN ticks :
           /\ ticks[k1].results[1].result.success
           /\ ~ticks[k2].results[1].result.success

====
